---- MODULE Spec2Model ----
(***************************************************************************)
(* Model of package errors of yusnower/bizgo: BizCode (code.go), BizError  *)
(* (error.go) and InitModule (code.go).                                    *)
(*                                                                         *)
(* Two specifications share the module.  Spec drives the error chain:      *)
(* errors are objects of a heap addressed by pointer, BizCode.Wrap         *)
(* allocates BizError nodes and calls the logger, BizCode.Equal, errors.Is *)
(* and BizCode.Ctx are applied to what the heap holds.  SpecInit drives    *)
(* InitModule over a bounded family of struct trees.                       *)
(***************************************************************************)
EXTENDS Integers, Sequences, FiniteSets, TLC

\* Bounds of the model.
MaxErrs == 3        \* error objects ever allocated in one run of Spec
MaxFields == 3      \* struct fields (all nesting levels together) of a tree

VARIABLES
    heap,       \* Seq of error objects; an error value is an index, Nil is 0
    logged,     \* number of logger.PrintBizError invocations so far
    lastInfo,   \* the ErrorInfo handed to the latest PrintBizError
    call,       \* the latest operation applied and its arguments
    ret,        \* what that operation returned
    codes,      \* the application's BizCode variables
    tree,       \* SpecInit: the struct value InitModule is pointed at
    panicked,   \* SpecInit: a reflect panic escaped InitModule
    icall       \* SpecInit: the latest InitModule call

vars == <<heap, logged, lastInfo, call, ret, codes, tree, panicked, icall>>
chainVars == <<heap, logged, lastInfo, call, ret, codes>>
treeVars == <<tree, panicked, icall>>

(***************************************************************************)
(* Values                                                                  *)
(***************************************************************************)
Nil == 0

\* BizCode.Key values and context.Context values ("none" is the nil ctx).
Keys == {"a", "b"}
Ctxs == {"none", "req"}

\* Call sites of Wrap in the application: where runtime.Caller places them
\* and the variadic obj ...interface{} each passes (as a1, a2 of the tests).
Sites == { [file |-> "svc.go", fn |-> "svc.a1", line |-> "13", obj |-> <<"a1">>],
           [file |-> "svc.go", fn |-> "svc.a2", line |-> "20", obj |-> <<"a2", "7">>] }

\* type BizCode struct { ctx context.Context; Key string }
BizCode(key, ctx) == [Key |-> key, ctx |-> ctx]

\* A nil *stack.
NoStack == [site |-> "", ptr |-> 0]

\* errors.New(...): an error that is no *BizError and wraps nothing.
StdError == [kind |-> "std", key |-> "", err |-> Nil, uuid |-> "", stack |-> NoStack]

\* fmt.Errorf("...%w", e): an error that is no *BizError and unwraps to e.
Wrapper(e) == [kind |-> "wrap", key |-> "", err |-> e, uuid |-> "", stack |-> NoStack]

\* type BizError struct { key; err; uuid; stack }
BizError(key, err, uuid, stack) ==
    [kind |-> "biz", key |-> key, err |-> err, uuid |-> uuid, stack |-> stack]

\* type ErrorInfo struct { Ctx; Err; Location; Value; Uuid }
ErrorInfo(ctx, err, location, value, uuid) ==
    [Ctx |-> ctx, Err |-> err, Location |-> location, Value |-> value, Uuid |-> uuid]

NoInfo == ErrorInfo("none", Nil, "", <<>>, "")

\* The BizCode variables of the application: two of one key under different
\* contexts, one of another key.
CodeTable ==
    << BizCode("a", "none"), BizCode("a", "req"), BizCode("b", "none") >>

(***************************************************************************)
(* error.go                                                                *)
(***************************************************************************)
\* func (r *BizError) Error() string { return r.key }
Error(h, e) == h[e].key

\* func (r *BizError) Unwrap() error { return r.err }
Unwrap(h, e) == h[e].err

\* errors.As(err, &bizErr): the first *BizError met walking Unwrap from err,
\* Nil when there is none.
RECURSIVE ErrorsAs(_, _)
ErrorsAs(h, err) ==
    IF err = Nil THEN Nil
    ELSE IF h[err].kind = "biz" THEN err
    ELSE IF h[err].kind = "wrap" THEN ErrorsAs(h, h[err].err)
    ELSE Nil

\* A plausible slip: Is compares the targets' identity instead of the keys.
BizErrorIsSameNode(h, r, target) ==
    LET t == ErrorsAs(h, target) IN
    IF t = Nil THEN FALSE ELSE r = t

\* func (r *BizError) Is(target error) bool
BizErrorIs(h, r, target) ==
    LET t == ErrorsAs(h, target) IN
    IF t = Nil THEN FALSE ELSE h[r].key = h[t].key

\* errors.Is(err, target), the walk of the standard library: at each level
\* err == target, then err.Is(target) when err has the method, then Unwrap.
RECURSIVE isWalk(_, _, _)
isWalk(h, err, target) ==
    IF err = target THEN TRUE
    ELSE IF h[err].kind = "biz" /\ BizErrorIs(h, err, target) THEN TRUE
    ELSE IF h[err].kind \in {"biz", "wrap"}
         THEN IF Unwrap(h, err) = Nil THEN FALSE
              ELSE isWalk(h, Unwrap(h, err), target)
    ELSE FALSE

ErrorsIs(h, err, target) ==
    IF err = Nil \/ target = Nil THEN err = target
    ELSE isWalk(h, err, target)

\* captureLocation(skip) called from Wrap with skip = 1: the frame of Wrap's
\* caller, formatted "%s/%s:%d" (file base, function base, line).
captureLocation(site) == site.file \o "/" \o site.fn \o ":" \o site.line

(***************************************************************************)
(* code.go: BizCode                                                        *)
(***************************************************************************)
\* callers(): the call stack at Wrap's caller, a new *stack on every call.
callers(h, site) == [site |-> captureLocation(site), ptr |-> Len(h) + 1]

\* A plausible slip: Ctx builds the copy without the key.
CtxDropsKey(r, ctx) == BizCode("", ctx)

\* func (r BizCode) Ctx(ctx context.Context) BizCode
Ctx(r, ctx) == BizCode(r.Key, ctx)

\* func (r BizCode) String() string
String(r) == r.Key

\* A plausible slip: every Wrap captures its own stack, found node or not.
NewBizErrOwnStack(h, r, err, site) ==
    LET bizErr == ErrorsAs(h, err) IN
    BizError(r.Key, err,
             IF bizErr # Nil THEN h[bizErr].uuid ELSE "123",
             callers(h, site))

\* A plausible slip: on a re-wrap the key is copied from the node found,
\* with the uuid and the stack.
NewBizErrKeyOfFound(h, r, err, site) ==
    LET bizErr == ErrorsAs(h, err) IN
    BizError(IF bizErr # Nil THEN h[bizErr].key ELSE r.Key,
             err,
             IF bizErr # Nil THEN h[bizErr].uuid ELSE "123",
             IF bizErr # Nil THEN h[bizErr].stack ELSE callers(h, site))

\* Wrap, lines 59-71: the node Wrap builds for a non-nil err.
NewBizErr(h, r, err, site) ==
    LET bizErr == ErrorsAs(h, err) IN
    BizError(r.Key, err,
             IF bizErr # Nil THEN h[bizErr].uuid ELSE "123",
             IF bizErr # Nil THEN h[bizErr].stack ELSE callers(h, site))

\* A plausible slip: the event is stamped with the cause's context-free
\* default instead of the receiver's context.
WrapInfoNoCtx(r, err, obj, site, node) ==
    ErrorInfo("none", err, captureLocation(site), obj, node.uuid)

\* Wrap, lines 73-79: the ErrorInfo Wrap hands to the logger.
WrapInfo(r, err, obj, site, node) ==
    ErrorInfo(r.ctx, err, captureLocation(site), obj, node.uuid)

\* A plausible slip: Equal looks at the nearest *BizError only.
RECURSIVE EqualNearest(_, _, _)
EqualNearest(h, r, err) ==
    IF err = Nil THEN FALSE
    ELSE LET bizErr == ErrorsAs(h, err) IN
         IF bizErr = Nil THEN FALSE ELSE r.Key = h[bizErr].key

\* func (r BizCode) Equal(err error) bool
RECURSIVE Equal(_, _, _)
Equal(h, r, err) ==
    IF err = Nil THEN FALSE
    ELSE LET bizErr == ErrorsAs(h, err) IN
         IF bizErr = Nil THEN FALSE
         ELSE IF r.Key = h[bizErr].key THEN TRUE
         ELSE IF h[bizErr].err # Nil THEN Equal(h, r, h[bizErr].err)
         ELSE FALSE

(***************************************************************************)
(* Operations of Spec                                                      *)
(***************************************************************************)
NoCall ==
    [op |-> "none", recv |-> BizCode("", "none"), err |-> Nil, obj |-> <<>>,
     site |-> "", target |-> Nil, tkey |-> "", ctx |-> "none"]

NoRet == [err |-> Nil, ok |-> FALSE, code |-> BizCode("", "none")]

Errs == 0 .. Len(heap)
BizNodes(h) == { e \in 1 .. Len(h) : h[e].kind = "biz" }

\* errors.New in the application.
New ==
    /\ Len(heap) < MaxErrs
    /\ heap' = Append(heap, StdError)
    /\ call' = [NoCall EXCEPT !.op = "New"]
    /\ ret' = [NoRet EXCEPT !.err = Len(heap) + 1]
    /\ UNCHANGED <<logged, lastInfo, codes>>

\* fmt.Errorf("%w", e) in the application.
Errorf(e) ==
    /\ Len(heap) < MaxErrs
    /\ e # Nil
    /\ heap' = Append(heap, Wrapper(e))
    /\ call' = [NoCall EXCEPT !.op = "Errorf", !.err = e]
    /\ ret' = [NoRet EXCEPT !.err = Len(heap) + 1]
    /\ UNCHANGED <<logged, lastInfo, codes>>

\* codes[i].Wrap(err, site.obj...) called from site.
Wrap(i, err, site) ==
    LET r == codes[i]
        obj == site.obj IN
    /\ call' = [NoCall EXCEPT !.op = "Wrap", !.recv = r, !.err = err,
                              !.obj = obj, !.site = captureLocation(site)]
    /\ \/ /\ err = Nil
          /\ ret' = [NoRet EXCEPT !.err = Nil]
          /\ UNCHANGED <<heap, logged, lastInfo>>
       \/ /\ err # Nil
          /\ Len(heap) < MaxErrs
          /\ LET newBizErr == NewBizErr(heap, r, err, site) IN
             /\ heap' = Append(heap, newBizErr)
             /\ logged' = logged + 1
             /\ lastInfo' = WrapInfo(r, err, obj, site, newBizErr)
             /\ ret' = [NoRet EXCEPT !.err = Len(heap) + 1]
    /\ UNCHANGED codes

\* codes[i].Equal(err)
CallEqual(i, err) ==
    /\ call' = [NoCall EXCEPT !.op = "Equal", !.recv = codes[i], !.err = err]
    /\ ret' = [NoRet EXCEPT !.ok = Equal(heap, codes[i], err)]
    /\ UNCHANGED <<heap, logged, lastInfo, codes>>

\* errors.Is(err, target) with target a *BizError of the heap.
CallIs(err, target) ==
    /\ target \in BizNodes(heap)
    /\ call' = [NoCall EXCEPT !.op = "Is", !.err = err, !.target = target,
                              !.tkey = heap[target].key]
    /\ ret' = [NoRet EXCEPT !.ok = ErrorsIs(heap, err, target)]
    /\ UNCHANGED <<heap, logged, lastInfo, codes>>

\* errors.Is(err, &BizError{key: k}): the target is a literal, dropped after
\* the call.
CallIsLiteral(err, k) ==
    LET h2 == Append(heap, BizError(k, Nil, "", NoStack)) IN
    /\ call' = [NoCall EXCEPT !.op = "Is", !.err = err, !.tkey = k]
    /\ ret' = [NoRet EXCEPT !.ok = ErrorsIs(h2, err, Len(h2))]
    /\ UNCHANGED <<heap, logged, lastInfo, codes>>

\* codes[i].Ctx(ctx); the receiver is passed by value.
CallCtx(i, ctx) ==
    /\ call' = [NoCall EXCEPT !.op = "Ctx", !.recv = codes[i], !.ctx = ctx]
    /\ ret' = [NoRet EXCEPT !.code = Ctx(codes[i], ctx)]
    /\ UNCHANGED <<heap, logged, lastInfo, codes>>

ChainInit ==
    /\ heap = <<>>
    /\ logged = 0
    /\ lastInfo = NoInfo
    /\ call = NoCall
    /\ ret = NoRet
    /\ codes = CodeTable

Init ==
    /\ ChainInit
    /\ tree = <<>>
    /\ panicked = FALSE
    /\ icall = [op |-> "none", prefix |-> "", kind |-> "nil"]

Next ==
    \/ New /\ UNCHANGED treeVars
    \/ \E e \in Errs : Errorf(e) /\ UNCHANGED treeVars
    \/ \E i \in DOMAIN codes, e \in Errs, s \in Sites :
           Wrap(i, e, s) /\ UNCHANGED treeVars
    \/ \E i \in DOMAIN codes, e \in Errs : CallEqual(i, e) /\ UNCHANGED treeVars
    \/ \E e \in Errs, t \in Errs : CallIs(e, t) /\ UNCHANGED treeVars
    \/ \E e \in Errs, k \in Keys : CallIsLiteral(e, k) /\ UNCHANGED treeVars
    \/ \E i \in DOMAIN codes, c \in Ctxs : CallCtx(i, c) /\ UNCHANGED treeVars

Spec == Init /\ [][Next]_vars

(***************************************************************************)
(* code.go: InitModule                                                     *)
(*                                                                         *)
(* A struct value is the sequence of its fields in declaration order.  A   *)
(* field carries what reflect reports of it (declared type, exported or    *)
(* not, the Key and prefix tags) and its value: val is the Key of a        *)
(* BizCode field or the contents of a string field, sub the fields of a    *)
(* nested struct.                                                          *)
(***************************************************************************)
Field(typ, exported, keyTag, prefixTag, val, sub) ==
    [typ |-> typ, exported |-> exported, keyTag |-> keyTag,
     prefixTag |-> prefixTag, val |-> val, sub |-> sub]

\* Fields that are no nested struct: tagged and untagged BizCode fields, an
\* unexported BizCode field, a string field that carries a Key tag.
LeafFields ==
    { Field("BizCode", TRUE, "k", "", "", <<>>),
      Field("BizCode", TRUE, "", "", "old", <<>>),
      Field("BizCode", FALSE, "u", "", "", <<>>),
      Field("string", TRUE, "k", "", "s", <<>>) }

\* Nested struct fields, before their own fields are filled in.
StructFields ==
    { Field("struct", TRUE, "", "o", "", <<>>),
      Field("struct", TRUE, "", "p", "", <<>>),
      Field("struct", TRUE, "", "", "", <<>>),
      Field("struct", FALSE, "", "p", "", <<>>) }

\* The struct values of exactly n fields, all nesting levels together.
RECURSIVE FieldsOfSize(_)
RECURSIVE StructsOfSize(_)
StructsOfSize(n) ==
    IF n = 0 THEN { <<>> }
    ELSE UNION { { <<f>> \o rest : f \in FieldsOfSize(k), rest \in StructsOfSize(n - k) }
                 : k \in 1 .. n }

FieldsOfSize(k) ==
    IF k = 1 THEN LeafFields \cup StructFields
    ELSE { [f EXCEPT !.sub = sub] : f \in StructFields, sub \in StructsOfSize(k - 1) }

Trees == UNION { StructsOfSize(n) : n \in 0 .. MaxFields }

\* The prefix argument of InitModule.
Prefixes == {"app", ""}

\* The fields of BizCode itself: ctx context.Context, Key string.
BizCodeFields ==
    << Field("interface", FALSE, "", "", "", <<>>),
       Field("string", TRUE, "", "", "", <<>>) >>

\* field.Type.Kind(): BizCode is a struct type too.
Kind(field) == IF field.typ \in {"BizCode", "struct"} THEN "struct" ELSE field.typ

\* fieldValue.CanSet(): addressable and not reached through an unexported field.
CanSet(field) == field.exported

\* fieldValue.CanAddr(): every field of the struct a pointer leads to.
CanAddr(field) == TRUE

\* fieldValue.Addr().Interface() returns only for a field reflect may hand
\* out; for one obtained from an unexported field it panics.
CanInterface(field) == field.exported

\* The fields the recursive call ranges over.
FieldsOf(field) == IF field.typ = "BizCode" THEN BizCodeFields ELSE field.sub

\* InitModule, lines 130-153: the loop over the fields of one struct, the
\* recursive calls included.  val is the struct as the loop leaves it, panic
\* says a panic ended it (what was set before stays set).
RECURSIVE InitFields(_, _)
InitFields(prefix, fs) ==
    IF fs = <<>> THEN [val |-> <<>>, panic |-> FALSE]
    ELSE
    LET field == Head(fs)
        set == IF field.typ = "BizCode" /\ CanSet(field) /\ field.keyTag # ""
               THEN [field EXCEPT !.val = prefix \o field.keyTag]
               ELSE field
        nestedPrefix == IF field.prefixTag # "" THEN prefix \o field.prefixTag
                        ELSE prefix
    IN  IF Kind(field) = "struct" /\ CanAddr(field)
        THEN IF ~CanInterface(field)
             THEN [val |-> <<set>> \o Tail(fs), panic |-> TRUE]
             ELSE LET nested == InitFields(nestedPrefix, FieldsOf(set))
                      done == IF field.typ = "struct"
                              THEN [set EXCEPT !.sub = nested.val] ELSE set
                  IN  IF nested.panic
                      THEN [val |-> <<done>> \o Tail(fs), panic |-> TRUE]
                      ELSE LET rest == InitFields(prefix, Tail(fs)) IN
                           [val |-> <<done>> \o rest.val, panic |-> rest.panic]
        ELSE LET rest == InitFields(prefix, Tail(fs)) IN
             [val |-> <<set>> \o rest.val, panic |-> rest.panic]

\* What obj interface{} can hold, as reflect.ValueOf(obj) reports it.
Target(nilIface, kind, isNil, elemKind) ==
    [nilIface |-> nilIface, kind |-> kind, isNil |-> isNil, elemKind |-> elemKind]

Targets ==
    [ nil |-> Target(TRUE, "invalid", FALSE, "invalid"),      \* nil
      value |-> Target(FALSE, "struct", FALSE, "invalid"),    \* a struct, not a pointer
      nilptr |-> Target(FALSE, "ptr", TRUE, "invalid"),       \* (*T)(nil)
      strptr |-> Target(FALSE, "ptr", FALSE, "string"),       \* *string
      ptr |-> Target(FALSE, "ptr", FALSE, "struct") ]         \* *T, T a struct

\* A plausible slip: the guard forgets v.Elem().Kind() != reflect.Struct.
AcceptsAnyPointer(t) ==
    /\ ~t.nilIface
    /\ ~(t.kind # "ptr" \/ t.isNil)

\* InitModule, lines 118-125: the guards a target must pass.
Accepts(t) ==
    /\ ~t.nilIface
    /\ ~(t.kind # "ptr" \/ t.isNil \/ t.elemKind # "struct")

\* func InitModule(prefix string, obj interface{}); v.NumField() panics on a
\* value that is no struct.
InitModule(prefix, t, fs) ==
    IF ~Accepts(t) THEN [val |-> fs, panic |-> FALSE]
    ELSE IF t.elemKind # "struct" THEN [val |-> fs, panic |-> TRUE]
    ELSE InitFields(prefix, fs)

NoICall == [op |-> "none", prefix |-> "", kind |-> "nil"]

\* InitModule(prefix, obj) called by the application; obj is nil, the struct
\* itself, a nil pointer, a pointer to a string, or a pointer to the struct.
\* A panic that escapes ends the program.
CallInitModule(prefix, kind) ==
    /\ ~panicked
    /\ LET r == InitModule(prefix, Targets[kind], tree) IN
       /\ tree' = r.val
       /\ panicked' = r.panic
    /\ icall' = [op |-> "InitModule", prefix |-> prefix, kind |-> kind]

InitTree ==
    /\ ChainInit
    /\ tree \in Trees
    /\ panicked = FALSE
    /\ icall = NoICall

NextTree ==
    \E prefix \in Prefixes, kind \in DOMAIN Targets :
        CallInitModule(prefix, kind) /\ UNCHANGED chainVars

SpecInit == InitTree /\ [][NextTree]_vars

(***************************************************************************)
(* Properties of the error chain, checked under Spec                       *)
(***************************************************************************)
\* The errors reachable from err by repeated Unwrap, err included.
RECURSIVE Chain(_, _)
Chain(h, err) == IF err = Nil THEN {} ELSE {err} \cup Chain(h, h[err].err)

\* The *BizError nodes among them.
ChainNodes(h, err) == { n \in Chain(h, err) : h[n].kind = "biz" }

\* The step just taken was a Wrap (call' names the operation of the step).
WrapStep == call'.op = "Wrap"
ReWrap(h, err) == ErrorsAs(h, err) # Nil

\* C1: c.Equal(err) is true iff err is non-nil and some BizError reachable by
\* repeated unwrap from err has key c.Key; so a match behind a closer node of
\* another key succeeds, and Equal(nil), Equal(non-BizError) are false.
C1_EqualMatchesAnywhere ==
    call.op = "Equal" =>
        ret.ok = ( /\ call.err # Nil
                   /\ \E n \in ChainNodes(heap, call.err) :
                          heap[n].key = call.recv.Key )

\* A match found behind a nearer BizError of another key.
C1_Witness ==
    /\ call.op = "Equal"
    /\ ret.ok
    /\ ErrorsAs(heap, call.err) # Nil
    /\ heap[ErrorsAs(heap, call.err)].key # call.recv.Key

\* C2: all BizError nodes of one chain carry the same uuid and the same
\* stack; a Wrap whose cause already holds a BizError copies that node's uuid
\* and stack into the new node, and no step changes a node that exists.
C2_ChainSharesOrigin ==
    /\ [](\A e \in 1 .. Len(heap) :
            \A n1, n2 \in ChainNodes(heap, e) :
                /\ heap[n1].uuid = heap[n2].uuid
                /\ heap[n1].stack = heap[n2].stack)
    /\ [][ /\ \A n \in 1 .. Len(heap) : Len(heap') >= n /\ heap'[n] = heap[n]
           /\ (WrapStep /\ ReWrap(heap, call'.err)) =>
                  LET found == heap[ErrorsAs(heap, call'.err)] IN
                  /\ heap'[ret'.err].uuid = found.uuid
                  /\ heap'[ret'.err].stack = found.stack ]_vars

\* A re-wrap made at another call site than the one the chain started at.
C2_Witness ==
    /\ call.op = "Wrap"
    /\ ret.err # Nil
    /\ ReWrap(heap, call.err)
    /\ heap[ret.err].stack.site # call.site
    /\ heap[ret.err].stack = heap[ErrorsAs(heap, call.err)].stack

\* C3: two chains started independently (two Wrap calls whose causes hold no
\* BizError) get different uuids.
C3_FreshUuidPerChain ==
    \A n1, n2 \in BizNodes(heap) :
        ( /\ n1 # n2
          /\ ~ReWrap(heap, heap[n1].err)
          /\ ~ReWrap(heap, heap[n2].err) ) => heap[n1].uuid # heap[n2].uuid

C7_IsAgreesWithEqual ==
    call.op = "Is" =>
        /\ ret.ok = (\E n \in ChainNodes(heap, call.err) : heap[n].key = call.tkey)
        /\ ret.ok = Equal(heap, BizCode(call.tkey, "none"), call.err)

\* errors.Is finds a literal target's key behind a nearer node of another key.
C7_Witness ==
    /\ call.op = "Is"
    /\ call.target = Nil
    /\ ret.ok
    /\ ErrorsAs(heap, call.err) # Nil
    /\ heap[ErrorsAs(heap, call.err)].key # call.tkey

\* C8 as stated: a Wrap of a non-nil cause calls the logger exactly once, a
\* Wrap(nil) not at all; the ErrorInfo carries the code's ctx, the cause, the
\* values, the node's uuid and the node's origin, which on a re-wrap is the
\* one inherited, not the current call site.
C8_EventCarriesInheritedOrigin ==
    [][ WrapStep =>
          IF call'.err = Nil
          THEN logged' = logged /\ lastInfo' = lastInfo
          ELSE /\ logged' = logged + 1
               /\ lastInfo' = ErrorInfo(call'.recv.ctx, call'.err,
                                        heap'[ret'.err].stack.site,
                                        call'.obj, heap'[ret'.err].uuid) ]_vars

\* C8 amended: as above, but Location is the call site of this Wrap, on a
\* first wrap and on a re-wrap alike; only the uuid is inherited.
C8_EventCarriesCallSite ==
    [][ WrapStep =>
          IF call'.err = Nil
          THEN logged' = logged /\ lastInfo' = lastInfo
          ELSE /\ logged' = logged + 1
               /\ lastInfo' = ErrorInfo(call'.recv.ctx, call'.err, call'.site,
                                        call'.obj, heap'[ret'.err].uuid)
               /\ ReWrap(heap, call'.err) =>
                      lastInfo'.Uuid = heap[ErrorsAs(heap, call'.err)].uuid ]_vars

\* A re-wrap under a context, logged with a Location that is not the origin
\* the node inherited.
C8_Witness ==
    /\ call.op = "Wrap"
    /\ ret.err # Nil
    /\ ReWrap(heap, call.err)
    /\ call.recv.ctx = "req"
    /\ logged = 2
    /\ lastInfo.Location = call.site
    /\ lastInfo.Location # heap[ret.err].stack.site

\* C9: Ctx returns a code of the same Key and leaves the receiver as it was;
\* a code Equals what any code of the same Key wrapped, whatever the
\* contexts; Equal answers the same under every context of its receiver.
C9_ContextIsNotIdentity ==
    /\ codes = CodeTable
    /\ call.op = "Ctx" =>
           /\ ret.code.Key = call.recv.Key
           /\ ret.code.ctx = call.ctx
           /\ \A e \in Errs :
                  Equal(heap, ret.code, e) = Equal(heap, call.recv, e)
    /\ (call.op = "Wrap" /\ call.err # Nil) =>
           \A i \in DOMAIN codes :
               codes[i].Key = call.recv.Key => Equal(heap, codes[i], ret.err)
    /\ call.op = "Equal" =>
           \A c \in Ctxs : Equal(heap, Ctx(call.recv, c), call.err) = ret.ok

\* A code bound to a context wrapped an error that the code of the same Key
\* under another context is asked about.
C9_Witness ==
    /\ call.op = "Equal"
    /\ call.recv.ctx = "none"
    /\ ret.ok
    /\ lastInfo.Ctx = "req"
    /\ call.err = Len(heap)
    /\ heap[call.err].kind = "biz"
    /\ heap[call.err].key = call.recv.Key

(***************************************************************************)
(* Properties of InitModule, checked under SpecInit                        *)
(***************************************************************************)
\* The paths (field indices, outermost first) to every field of a struct.
RECURSIVE Paths(_)
Paths(fs) ==
    UNION { {<<i>>} \cup { <<i>> \o p : p \in Paths(fs[i].sub) } : i \in DOMAIN fs }

\* The field a path leads to.
RECURSIVE At(_, _)
At(fs, p) == IF Len(p) = 1 THEN fs[p[1]] ELSE At(fs[p[1]].sub, Tail(p))

\* The prefix tags of the nested-struct fields enclosing it, outermost first.
RECURSIVE PrefixOf(_, _)
PrefixOf(fs, p) ==
    IF Len(p) = 1 THEN ""
    ELSE fs[p[1]].prefixTag \o PrefixOf(fs[p[1]].sub, Tail(p))

\* The step just taken called InitModule with a non-nil pointer to a struct.
InitStep == icall'.op = "InitModule" /\ icall'.kind = "ptr"

\* C5: after InitModule(p, &tree) every BizCode field carrying a Key tag k
\* has Key = p + the prefix tags of the enclosing struct fields, outermost
\* first + k.
C5_KeysComposePrefixes ==
    (icall.op = "InitModule" /\ icall.kind = "ptr") =>
        \A p \in Paths(tree) :
            LET f == At(tree, p) IN
            (f.typ = "BizCode" /\ f.keyTag # "") =>
                f.val = icall.prefix \o PrefixOf(tree, p) \o f.keyTag

\* C6: InitModule called with nil, a non-pointer, a nil struct pointer or a
\* pointer to a non-struct does not panic and changes no Key.
C6_BadTargetIsNoOp ==
    [][ (icall'.op = "InitModule" /\ icall'.kind # "ptr") =>
            /\ ~panicked'
            /\ tree' = tree ]_vars

\* A pointer to a string was passed while a tagged BizCode field of the
\* struct still waits for its key.
C6_Witness ==
    /\ icall.op = "InitModule"
    /\ icall.kind = "strptr"
    /\ ~panicked
    /\ \E p \in Paths(tree) :
           /\ At(tree, p).typ = "BizCode"
           /\ At(tree, p).exported
           /\ At(tree, p).keyTag # ""
           /\ At(tree, p).val = ""

\* C10: for every non-nil pointer to a struct, whatever the types,
\* settability and tags of its fields, InitModule does not panic; a BizCode
\* field without a Key tag keeps its Key, and nothing but the Key of
\* Key-tagged BizCode fields changes.
C10_InitNeverFaults ==
    [][ InitStep =>
            /\ ~panicked'
            /\ Paths(tree') = Paths(tree)
            /\ \A p \in Paths(tree) :
                   LET f == At(tree, p)
                       g == At(tree', p) IN
                   IF f.typ = "BizCode" /\ f.keyTag # ""
                   THEN [g EXCEPT !.val = f.val] = f
                   ELSE [g EXCEPT !.sub = f.sub] = f ]_vars

====
